---- MODULE Spec2Model ----
(***************************************************************************)
(* Model of the deployment orchestrator of llm-deployer:                   *)
(*   src/src/deployer.py  execute_deployment, destroy_resources,           *)
(*                        _run_command, _run_remote_script,                *)
(*                        _generate_ssh_key, _get_gcp_project_id           *)
(*   src/main.py          main                                             *)
(*                                                                         *)
(* One orchestrator process runs one invocation at a time.  Texts are      *)
(* sequences of chunks: a chunk stands for a run of characters, and the    *)
(* chunks are chosen so that a character-level match of a placeholder      *)
(* token can only start and end on chunk boundaries ('Y' occurs only at    *)
(* the start of the YOUR_ chunks), so str.replace on the characters and    *)
(* Replace on the chunks agree.                                            *)
(***************************************************************************)
EXTENDS Integers, Sequences, FiniteSets, TLC

----------------------------------------------------------------------------
(* Bounds of the model *)

\* longest declaration text, in tokens
MaxDeclLen == 2
\* most lines a child process or the remote script writes
MaxLines == 2
\* capacity of an OS pipe between child and runner, in lines
PipeCap == 1

(* Program constants *)

\* range(10) of the connection loop
MaxAttempts == 10
\* the fallback port of the final endpoint
DefaultPort == 80

WORKDIR_NAME == "deploy_workdir"
PRIVATE_KEY_FILENAME == "deploy_key.pem"
PUBLIC_KEY_FILENAME == "deploy_key.pub"
TF_FILENAME == "main.tf"
SCRIPT_FILENAME == "deploy.sh"
REMOTE_USERNAME == "gcp-user"
\* the state the engine keeps in its working directory once apply has begun
STATE_FILENAME == "terraform.tfstate"

----------------------------------------------------------------------------
(* Texts *)

\* the list `placeholders` of execute_deployment, in its order
Placeholders ==
    << <<"YOUR_GCP_", "PROJECT_ID">>, <<"YOUR_GOOGLE_", "PROJECT_ID">> >>

SeqsUpTo(S, n) == UNION {[1..k -> S] : k \in 0..n}

\* whether text p occurs in text s
Contains(s, p) ==
    \E i \in 1..(Len(s) - Len(p) + 1) : SubSeq(s, i, i + Len(p) - 1) = p

\* str.replace(old, new): every non-overlapping occurrence, left to right
RECURSIVE Replace(_, _, _)
Replace(s, old, new) ==
    IF Len(s) < Len(old) THEN s
    ELSE IF SubSeq(s, 1, Len(old)) = old
         THEN new \o Replace(SubSeq(s, Len(old) + 1, Len(s)), old, new)
         ELSE <<Head(s)>> \o Replace(Tail(s), old, new)

\* the loop `for placeholder in placeholders: content = content.replace(..)`
RECURSIVE SubstituteFrom(_, _, _)
SubstituteFrom(i, content, project_id) ==
    IF i > Len(Placeholders) THEN content
    ELSE SubstituteFrom(i + 1, Replace(content, Placeholders[i], project_id),
                        project_id)

SubstitutePlaceholders(content, project_id) ==
    SubstituteFrom(1, content, project_id)

IsSpace(c) == c \in {" ", "\n"}

\* str.strip(): leading and trailing whitespace removed
RECURSIVE LStrip(_)
LStrip(s) == IF s # <<>> /\ IsSpace(Head(s)) THEN LStrip(Tail(s)) ELSE s
RECURSIVE RStrip(_)
RStrip(s) ==
    IF s # <<>> /\ IsSpace(s[Len(s)]) THEN RStrip(SubSeq(s, 1, Len(s) - 1))
    ELSE s
Strip(s) == RStrip(LStrip(s))

----------------------------------------------------------------------------
(* Inputs *)

\* what a declaration text is made of: the two placeholder tokens and
\* other text
DeclTokens ==
    { <<"YOUR_GCP_", "PROJECT_ID">>, <<"YOUR_GOOGLE_", "PROJECT_ID">>, <<"a">> }

RECURSIVE Flatten(_)
Flatten(ts) == IF ts = <<>> THEN <<>> ELSE Head(ts) \o Flatten(Tail(ts))

\* declaration texts the generator may hand over: up to MaxDeclLen tokens
Declarations == {Flatten(ts) : ts \in SeqsUpTo(DeclTokens, MaxDeclLen)}

\* a further member of a keyed collection
OtherMembers == { <<"YOUR_GCP_", "PROJECT_ID">> }

\* assets["terraform_code"]: a plain string `text`, or a dict whose values()
\* are `members` in iteration order (an empty dict included)
Payloads ==
    {[kind |-> "str", text |-> t, members |-> <<>>] : t \in Declarations}
    \cup {[kind |-> "dict", text |-> <<>>, members |-> <<t>>] :
              t \in Declarations}
    \cup {[kind |-> "dict", text |-> <<>>, members |-> <<t, o>>] :
              t \in Declarations, o \in OtherMembers}
    \cup {[kind |-> "dict", text |-> <<>>, members |-> <<>>]}

NoPayload == [kind |-> "none", text |-> <<>>, members |-> <<>>]

\* what `gcloud config get-value project` may have configured
ProjectIds == { <<"a">>, <<"YOUR_GCP_", "PROJECT_ID">> }

\* the standard output of gcloud on exit status 0
GcloudOutputs == {<<>>, <<"\n">>} \cup {p \o <<"\n">> : p \in ProjectIds}

Scripts == {"#!/bin/bash"}

\* assets["analysis"]: a dict with or without the key exposed_port
Analyses ==
    {[language |-> "python", has_port |-> FALSE, exposed_port |-> 0],
     [language |-> "python", has_port |-> TRUE, exposed_port |-> 5000]}

Keys == {"k1", "k2"}
Hosts == {"203.0.113.5"}
ExitStatuses == {0, 1, 2}

----------------------------------------------------------------------------
(* State *)

VARIABLES
    pc,                 \* position of the orchestrator process in its code
    op,                 \* the running invocation: deploy, destroy, main
    cli,                \* whether destroy_resources was entered from main
    result,             \* how the invocation ended, with the exception
                        \* raised, or caught and printed, if any
    endpoint,           \* the endpoint printed by line 168
    exitCode,           \* exit status of the CLI process (-1: none)
    dirExists,          \* whether deploy_workdir exists
    files,              \* names of the files in deploy_workdir
    tfFile,             \* content of main.tf
    shFile,             \* content of deploy.sh
    privKey,            \* key held by deploy_key.pem
    privMode,           \* permission bits of deploy_key.pem
    pubKey,             \* content of deploy_key.pub
    tempDir,            \* main's mkdtemp directory: none, exists, removed
    rmtrees,            \* calls of shutil.rmtree in this invocation
    terraform_code,     \* assets["terraform_code"] as passed
    terraform_content,  \* local of execute_deployment
    project_id,         \* local of execute_deployment
    public_key_content, \* local of execute_deployment
    output_json,        \* local of execute_deployment
    server_ip,          \* local of execute_deployment
    analysis,           \* assets["analysis"] as read by line 165
    proc,               \* the child process of _run_command and its pipes
    retval,             \* what _run_command is about to return
    cmds,               \* engine subcommands spawned in this invocation
    attempts,           \* ssh_client.connect calls in this invocation
    waits,              \* time.sleep(15) calls in this invocation
    conn,               \* the SSH connection: none, open, closed
    closes,             \* ssh_client.close calls in this invocation
    remote,             \* what the remote session did on the host
    pending             \* exception in flight through a finally/except

ctlVars == <<pc, op, cli, result, endpoint, exitCode>>
fsVars == <<dirExists, files, tfFile, shFile, privKey, privMode, pubKey>>
tmpVars == <<tempDir, rmtrees>>
locVars == <<terraform_code, terraform_content, project_id,
             public_key_content, output_json, server_ip, analysis>>
runVars == <<proc, retval, cmds>>
sshVars == <<attempts, waits, conn, closes, remote, pending>>
vars == <<ctlVars, fsVars, tmpVars, locVars, runVars, sshVars>>

NoError == [type |-> "none", origin |-> "none", code |-> 0]
Error(t, o, c) == [type |-> t, origin |-> o, code |-> c]

NoResult == [kind |-> "none", err |-> NoError]
Returned == [kind |-> "returned", err |-> NoError]
Raised(e) == [kind |-> "raised", err |-> e]
Killed == [kind |-> "killed", err |-> NoError]

\* `writing`: the file descriptor of a write() the child is blocked in
NoProc ==
    [sub |-> "none", auto |-> FALSE, key |-> <<>>, stream |-> FALSE,
     alive |-> FALSE, status |-> -1, writing |-> "",
     written |-> <<>>, pipeOut |-> <<>>, pipeErr |-> <<>>, output |-> <<>>]

\* the host as the session left it: `uploaded` and `executable` are the
\* script at /tmp/deploy.sh, `archived` an archive of the application
\* content at a second staging path
NoRemote ==
    [host |-> "", uploaded |-> FALSE, executable |-> FALSE,
     archived |-> FALSE,
     started |-> FALSE, out |-> <<>>, exited |-> FALSE, status |-> 0]

NoAnalysis == [language |-> "none", has_port |-> FALSE, exposed_port |-> 0]

Init ==
    /\ pc = "idle" /\ op = "none" /\ cli = FALSE
    /\ result = NoResult /\ endpoint = <<>> /\ exitCode = -1
    /\ dirExists = FALSE /\ files = {}
    /\ tfFile = <<>> /\ shFile = "" /\ privKey = "" /\ privMode = ""
    /\ pubKey = <<>>
    /\ tempDir = "none" /\ rmtrees = 0
    /\ terraform_code = NoPayload /\ terraform_content = <<>>
    /\ project_id = <<>> /\ public_key_content = <<>>
    /\ output_json = <<>> /\ server_ip = "" /\ analysis = NoAnalysis
    /\ proc = NoProc /\ retval = <<>> /\ cmds = <<>>
    /\ attempts = 0 /\ waits = 0 /\ conn = "none" /\ closes = 0
    /\ remote = NoRemote /\ pending = NoError

\* a new invocation starts in a fresh process: no locals, nothing logged
FreshInvocation ==
    /\ endpoint' = <<>>
    /\ rmtrees' = 0
    /\ terraform_content' = <<>>
    /\ project_id' = <<>> /\ public_key_content' = <<>>
    /\ output_json' = <<>> /\ server_ip' = "" /\ analysis' = NoAnalysis
    /\ proc' = NoProc /\ retval' = <<>> /\ cmds' = <<>>
    /\ attempts' = 0 /\ waits' = 0 /\ conn' = "none" /\ closes' = 0
    /\ remote' = NoRemote /\ pending' = NoError

Idle == pc \in {"idle", "done"}

\* an exception leaves execute_deployment: nothing in it catches
Raise(e) ==
    /\ pc' = "done"
    /\ result' = Raised(e)

\* Throw without the try of destroy_resources
ThrowUncaught(e) ==
    Raise(e) /\ pending' = NoError

\* an exception leaves _run_command: destroy_resources calls it inside its
\* try (lines 184-189), execute_deployment outside any
Throw(e) ==
    IF op = "destroy"
    THEN pc' = "x_except" /\ pending' = e /\ UNCHANGED result
    ELSE Raise(e) /\ pending' = NoError

----------------------------------------------------------------------------
(* execute_deployment: staging (lines 121-142) *)

\* lines 123-124: the call and makedirs(exist_ok=True)
DeployCall ==
    /\ Idle
    /\ FreshInvocation
    /\ terraform_code' = NoPayload
    /\ op' = "deploy" /\ cli' = FALSE
    /\ result' = NoResult /\ exitCode' = -1
    /\ pc' = "d_select"
    /\ dirExists' = TRUE
    /\ tempDir' = "none"
    /\ UNCHANGED <<files, tfFile, shFile, privKey, privMode, pubKey>>

\* SelectDeclaration taking the last member of a dict
SelectLastDeclaration(payload) ==
    IF payload.kind = "dict" THEN payload.members[Len(payload.members)]
    ELSE payload.text

\* line 128: list(terraform_content.values())[0] for a dict, else the string
SelectDeclaration(payload) ==
    IF payload.kind = "dict" THEN payload.members[1] ELSE payload.text

\* lines 126-128; assets["terraform_code"] is the caller's argument, first
\* read here
DeploySelect ==
    /\ pc = "d_select"
    /\ \E payload \in Payloads :
        /\ terraform_code' = payload
        /\ IF payload.kind = "dict" /\ payload.members = <<>>
           THEN /\ Raise(Error("IndexError", "execute_deployment", 0))
                /\ UNCHANGED terraform_content
           ELSE /\ pc' = "d_project"
                /\ terraform_content' = SelectDeclaration(payload)
                /\ UNCHANGED result
    /\ UNCHANGED <<op, cli, endpoint, exitCode, fsVars, tmpVars,
                   project_id, public_key_content, output_json, server_ip,
                   analysis, runVars, sshVars>>

\* lines 109-119 and 130: _get_gcp_project_id
\*   gcloud missing or exiting non-zero -> RuntimeError
\*   empty output after strip()         -> ValueError
GetGcpProjectId ==
    /\ pc = "d_project"
    /\ \/ /\ Raise(Error("RuntimeError", "_get_gcp_project_id", 0))
          /\ UNCHANGED project_id
       \/ \E stdout \in GcloudOutputs :
             IF Strip(stdout) = <<>>
             THEN /\ Raise(Error("ValueError", "_get_gcp_project_id", 0))
                  /\ UNCHANGED project_id
             ELSE /\ project_id' = Strip(stdout)
                  /\ pc' = "d_write"
                  /\ UNCHANGED result
    /\ UNCHANGED <<op, cli, endpoint, exitCode, fsVars, tmpVars, terraform_code,
                   terraform_content, public_key_content, output_json,
                   server_ip, analysis, runVars, sshVars>>

\* lines 131-139: the substitution and the two writes
WriteFiles ==
    /\ pc = "d_write"
    /\ \E script \in Scripts :
        /\ terraform_content' =
               SubstitutePlaceholders(terraform_content, project_id)
        /\ tfFile' = terraform_content'
        /\ shFile' = script
        /\ files' = files \cup {TF_FILENAME, SCRIPT_FILENAME}
    /\ pc' = "k_call"
    /\ UNCHANGED <<op, cli, result, endpoint, exitCode, dirExists, privKey,
                   privMode, pubKey, tmpVars, terraform_code, project_id,
                   public_key_content, output_json, server_ip, analysis,
                   runVars, sshVars>>

----------------------------------------------------------------------------
(* _generate_ssh_key (lines 15-30) and the read of line 142 *)

\* permission bits deploy_key.pem may have when write_private_key_file
\* returns or is interrupted: the library is not part of the source, which
\* sets the mode itself at line 29; a file created under the usual umask
\* has 0644 until it is chmod-ed
KeyFileModes == {"0600", "0644"}

\* f"{key.get_name()} {key.get_base64()}"
PublicKeyLine(key) == <<"ssh-rsa", " ", key>>

\* GenerateSshKeyCheck without the os.path.exists test: a key is generated
\* on every call
GenerateSshKeyAlways ==
    /\ pc = "k_call"
    /\ pc' = "k_private"
    /\ terraform_code' = NoPayload
    /\ UNCHANGED <<op, cli, result, endpoint, exitCode, fsVars, tmpVars,
                   terraform_content, project_id, public_key_content,
                   output_json, server_ip, analysis, runVars, sshVars>>

\* lines 141, 17-20: the call and the os.path.exists test.  The declaration
\* payload is not read after line 128; the model forgets it here.
GenerateSshKeyCheck ==
    /\ pc = "k_call"
    /\ pc' = IF PRIVATE_KEY_FILENAME \in files THEN "k_found" ELSE "k_private"
    /\ terraform_code' = NoPayload
    /\ UNCHANGED <<op, cli, result, endpoint, exitCode, fsVars, tmpVars,
                   terraform_content, project_id, public_key_content,
                   output_json, server_ip, analysis, runVars, sshVars>>

\* lines 20, 30: a private key file exists; nothing is generated and the two
\* paths are returned
GenerateSshKeyFound ==
    /\ pc = "k_found"
    /\ pc' = "d_readpub"
    /\ UNCHANGED <<op, cli, result, endpoint, exitCode, fsVars, tmpVars,
                   locVars, runVars, sshVars>>

\* lines 22-23: RSAKey.generate and write_private_key_file
WritePrivateKey ==
    /\ pc = "k_private"
    /\ \E key \in Keys, mode \in KeyFileModes :
        /\ privKey' = key
        /\ privMode' = mode
    /\ files' = files \cup {PRIVATE_KEY_FILENAME}
    /\ pc' = "k_public"
    /\ UNCHANGED <<op, cli, result, endpoint, exitCode, dirExists, tfFile,
                   shFile, pubKey, tmpVars, locVars, runVars, sshVars>>

\* lines 25-27
WritePublicKey ==
    /\ pc = "k_public"
    /\ pubKey' = PublicKeyLine(privKey)
    /\ files' = files \cup {PUBLIC_KEY_FILENAME}
    /\ pc' = "k_chmod"
    /\ UNCHANGED <<op, cli, result, endpoint, exitCode, dirExists, tfFile,
                   shFile, privKey, privMode, tmpVars, locVars, runVars,
                   sshVars>>

\* line 29
ChmodPrivateKey ==
    /\ pc = "k_chmod"
    /\ privMode' = "0600"
    /\ pc' = "d_readpub"
    /\ UNCHANGED <<op, cli, result, endpoint, exitCode, dirExists, files,
                   tfFile, shFile, privKey, pubKey, tmpVars, locVars, runVars,
                   sshVars>>

\* line 142: open(public_key_path).read().strip()
ReadPublicKey ==
    /\ pc = "d_readpub"
    /\ IF PUBLIC_KEY_FILENAME \in files
       THEN /\ public_key_content' = Strip(pubKey)
            /\ pc' = "d_init"
            /\ UNCHANGED result
       ELSE /\ Raise(Error("FileNotFoundError", "execute_deployment", 0))
            /\ UNCHANGED public_key_content
    /\ UNCHANGED <<op, cli, endpoint, exitCode, fsVars, tmpVars, terraform_code,
                   terraform_content, project_id, output_json, server_ip,
                   analysis, runVars, sshVars>>

----------------------------------------------------------------------------
(* _run_command (lines 83-107) and the child process it spawns *)

\* the structured output of `terraform output -json` for a declaration
\* that exposes nat_ip, and for one that exposes no output
DocNatIp(host) == <<"{nat_ip:{value:", host, "}}">>
DocEmpty == <<"{}">>
OutputDocs == {DocNatIp(h) : h \in Hosts} \cup {DocEmpty}

\* what a child may write on a file descriptor in one write
ChildLines(sub, fd) ==
    IF fd = "stderr" THEN { <<"err">> }
    ELSE IF sub = "output" THEN OutputDocs
    ELSE { <<"out">> }

\* the lines of a sequence of writes
RECURSIVE LinesOf(_)
LinesOf(ws) == IF ws = <<>> THEN <<>> ELSE <<Head(ws).line>> \o LinesOf(Tail(ws))

RECURSIVE OnFd(_, _)
OnFd(ws, fd) ==
    IF ws = <<>> THEN <<>>
    ELSE IF Head(ws).fd = fd THEN <<Head(ws)>> \o OnFd(Tail(ws), fd)
    ELSE OnFd(Tail(ws), fd)

\* lines 86-92: subprocess.Popen; the executable may be missing
Popen(sub, auto, key, stream) ==
    \/ /\ Throw(Error("FileNotFoundError", "_run_command", 0))
       /\ UNCHANGED <<proc, retval, cmds>>
    \/ /\ proc' = [sub |-> sub, auto |-> auto, key |-> key, stream |-> stream,
                   alive |-> TRUE, status |-> -1, writing |-> "",
                   written |-> <<>>,
                   pipeOut |-> <<>>, pipeErr |-> <<>>, output |-> <<>>]
       /\ cmds' = Append(cmds, sub)
       /\ pc' = IF stream THEN "r_read" ELSE "r_wait"
       /\ UNCHANGED <<retval, result, pending>>

\* the pipe a write on fd goes to: stderr shares the stdout pipe when
\* stderr=subprocess.STDOUT (stream_output)
PipeOf(p, fd) == IF fd = "stdout" \/ p.stream THEN p.pipeOut ELSE p.pipeErr

\* the child writes a line, or completes the write it was blocked in, when
\* the pipe has room
ChildWrite ==
    /\ proc.alive
    /\ Len(proc.written) < MaxLines
    /\ \E fd \in {"stdout", "stderr"} :
       \E line \in ChildLines(proc.sub, fd) :
          /\ proc.writing \in {"", fd}
          /\ Len(PipeOf(proc, fd)) < PipeCap
          /\ IF fd = "stdout" \/ proc.stream
             THEN proc' = [proc EXCEPT
                      !.written = Append(@, [fd |-> fd, line |-> line]),
                      !.pipeOut = Append(@, line), !.writing = ""]
             ELSE proc' = [proc EXCEPT
                      !.written = Append(@, [fd |-> fd, line |-> line]),
                      !.pipeErr = Append(@, line), !.writing = ""]
    /\ UNCHANGED <<ctlVars, fsVars, tmpVars, locVars, retval, cmds, sshVars>>

\* the child calls write() on a full pipe: the call blocks until the runner
\* has read from the pipe
ChildBlock ==
    /\ proc.alive
    /\ proc.writing = ""
    /\ Len(proc.written) < MaxLines
    /\ \E fd \in {"stdout", "stderr"} :
          /\ Len(PipeOf(proc, fd)) >= PipeCap
          /\ proc' = [proc EXCEPT !.writing = fd]
    /\ UNCHANGED <<ctlVars, fsVars, tmpVars, locVars, retval, cmds, sshVars>>

\* the child exits, which closes its ends of the pipes; it cannot while it
\* is blocked in a write
ChildExit ==
    /\ proc.alive
    /\ proc.writing = ""
    /\ \E status \in ExitStatuses :
          proc' = [proc EXCEPT !.alive = FALSE, !.status = status]
    /\ UNCHANGED <<ctlVars, fsVars, tmpVars, locVars, retval, cmds, sshVars>>

\* lines 96-98: one readline() that returns a line
RunReadLine ==
    /\ pc = "r_read"
    /\ proc.pipeOut # <<>>
    /\ proc' = [proc EXCEPT !.output = Append(@, Head(proc.pipeOut)),
                            !.pipeOut = Tail(@)]
    /\ UNCHANGED <<ctlVars, fsVars, tmpVars, locVars, retval, cmds, sshVars>>

\* line 96: readline() returns '' at end of file
RunReadEof ==
    /\ pc = "r_read"
    /\ proc.pipeOut = <<>> /\ ~proc.alive
    /\ pc' = "r_wait"
    /\ UNCHANGED <<op, cli, result, endpoint, exitCode, fsVars, tmpVars,
                   locVars, runVars, sshVars>>

\* RunOutput that reads the pipe in both modes, after the loop emptied it
RunOutputUnread(p) == p.pipeOut

\* line 107: process.communicate()[0] when silent, else the lines read
RunOutput(p) ==
    IF p.stream THEN p.output ELSE p.pipeOut

\* RunError without the test of process.returncode
RunErrorIgnored(p) == NoError

\* line 105: raise RuntimeError(f"... exit code {process.returncode}")
RunError(p) ==
    IF p.status # 0 THEN Error("RuntimeError", "_run_command", p.status)
    ELSE NoError

\* lines 100-107: process.wait() returns once the child has exited; then the
\* return code decides; communicate() drains the pipes when silent
RunWait ==
    /\ pc = "r_wait"
    /\ ~proc.alive
    /\ pending' = RunError(proc)
    /\ retval' = IF proc.status # 0 THEN <<>> ELSE RunOutput(proc)
    /\ proc' = IF proc.stream THEN proc
               ELSE [proc EXCEPT !.pipeOut = <<>>, !.pipeErr = <<>>]
    /\ pc' = "r_return"
    /\ UNCHANGED <<op, cli, result, endpoint, exitCode, fsVars, tmpVars,
                   locVars, cmds, attempts, waits, conn, closes, remote>>

\* AfterCommand with the apply call of execute_deployment left out
AfterCommandSkipApply(o, sub) ==
    IF o = "deploy"
    THEN CASE sub = "init" -> "d_output"
           [] OTHER -> "d_parse"
    ELSE CASE sub = "init" -> "x_destroy"
           [] OTHER -> "x_ok"

\* where the caller goes on after _run_command returned
AfterCommand(o, sub) ==
    IF o = "deploy"
    THEN CASE sub = "init" -> "d_apply"
           [] sub = "apply" -> "d_output"
           [] OTHER -> "d_parse"
    ELSE CASE sub = "init" -> "x_destroy"
           [] OTHER -> "x_ok"

\* RunReturn with execute_deployment removing its working directory when a
\* command failed
RunReturnReleasing ==
    /\ pc = "r_return"
    /\ IF pending # NoError
       THEN /\ Throw(pending)
            /\ UNCHANGED output_json
            /\ dirExists' = (op # "deploy" /\ dirExists)
            /\ files' = IF op = "deploy" THEN {} ELSE files
       ELSE /\ pc' = AfterCommand(op, proc.sub)
            /\ output_json' = IF proc.sub = "output" THEN retval ELSE output_json
            /\ UNCHANGED <<result, pending, dirExists, files>>
    /\ proc' = NoProc
    /\ retval' = <<>>
    /\ UNCHANGED <<op, cli, endpoint, exitCode, tfFile, shFile, privKey,
                   privMode, pubKey, tmpVars, terraform_code,
                   terraform_content, project_id, public_key_content,
                   server_ip, analysis, cmds, attempts, waits, conn, closes,
                   remote>>

\* _run_command returns to its caller, or its exception leaves it
RunReturn ==
    /\ pc = "r_return"
    /\ IF pending # NoError
       THEN /\ Throw(pending)
            /\ UNCHANGED output_json
       ELSE /\ pc' = AfterCommand(op, proc.sub)
            /\ output_json' = IF proc.sub = "output" THEN retval ELSE output_json
            /\ UNCHANGED <<result, pending>>
    /\ proc' = NoProc
    /\ retval' = <<>>
    /\ UNCHANGED <<op, cli, endpoint, exitCode, fsVars, tmpVars, terraform_code,
                   terraform_content, project_id, public_key_content,
                   server_ip, analysis, cmds, attempts, waits, conn, closes,
                   remote>>

----------------------------------------------------------------------------
(* execute_deployment: the engine (lines 144-159) *)

\* line 144
DeployInit ==
    /\ pc = "d_init"
    /\ Popen("init", FALSE, <<>>, TRUE)
    /\ UNCHANGED <<op, cli, endpoint, exitCode, fsVars, tmpVars, locVars,
                   attempts, waits, conn, closes, remote>>

\* lines 146-153; auto_approve is the caller's argument, first read here.
\* The engine runs with cwd=deploy_workdir and keeps its state there.
DeployApply ==
    /\ pc = "d_apply"
    /\ \E auto_approve \in BOOLEAN :
          Popen("apply", auto_approve, public_key_content, TRUE)
    /\ files' = IF cmds' # cmds THEN files \cup {STATE_FILENAME} ELSE files
    /\ UNCHANGED <<op, cli, endpoint, exitCode, dirExists, tfFile, shFile,
                   privKey, privMode, pubKey, tmpVars, locVars,
                   attempts, waits, conn, closes, remote>>

\* line 157
DeployOutput ==
    /\ pc = "d_output"
    /\ Popen("output", FALSE, <<>>, FALSE)
    /\ UNCHANGED <<op, cli, endpoint, exitCode, fsVars, tmpVars, locVars,
                   attempts, waits, conn, closes, remote>>

\* json.loads of the captured text: one document parses, anything else
\* (no text, text after the document) is a JSONDecodeError
JsonLoads(text) ==
    IF Len(text) = 1 /\ text[1] \in OutputDocs
    THEN IF text[1] = DocEmpty
         THEN [valid |-> TRUE, keys |-> {}, value |-> ""]
         ELSE [valid |-> TRUE, keys |-> {"nat_ip"}, value |-> text[1][2]]
    ELSE [valid |-> FALSE, keys |-> {}, value |-> ""]

\* ParseOutput using dict.get: a missing nat_ip gives an empty address
ParseOutputLenient ==
    /\ pc = "d_parse"
    /\ LET parsed == JsonLoads(output_json) IN
       IF ~parsed.valid
       THEN /\ Raise(Error("JSONDecodeError", "execute_deployment", 0))
            /\ UNCHANGED server_ip
       ELSE /\ server_ip' = parsed.value
            /\ pc' = "s_connect"
            /\ UNCHANGED result
    /\ UNCHANGED <<op, cli, endpoint, exitCode, fsVars, tmpVars, terraform_code,
                   terraform_content, project_id, public_key_content,
                   output_json, analysis, runVars, sshVars>>

\* lines 158-159: json.loads(output_json)['nat_ip']['value']
ParseOutput ==
    /\ pc = "d_parse"
    /\ LET parsed == JsonLoads(output_json) IN
       IF ~parsed.valid
       THEN /\ Raise(Error("JSONDecodeError", "execute_deployment", 0))
            /\ UNCHANGED server_ip
       ELSE IF "nat_ip" \notin parsed.keys
       THEN /\ Raise(Error("KeyError", "nat_ip", 0))
            /\ UNCHANGED server_ip
       ELSE /\ server_ip' = parsed.value
            /\ pc' = "s_connect"
            /\ UNCHANGED result
    /\ UNCHANGED <<op, cli, endpoint, exitCode, fsVars, tmpVars, terraform_code,
                   terraform_content, project_id, public_key_content,
                   output_json, analysis, runVars, sshVars>>

----------------------------------------------------------------------------
(* _run_remote_script (lines 32-80) *)

RemoteLines == { <<"ok">>, <<"ERROR">> }
RemoteExitStatuses == ExitStatuses \cup {-1}

\* lines 39-44: an attempt that connects; break
SshConnect ==
    /\ pc = "s_connect"
    /\ attempts < MaxAttempts
    /\ attempts' = attempts + 1
    /\ conn' = "open"
    /\ remote' = [remote EXCEPT !.host = server_ip]
    /\ pc' = "s_put"
    /\ UNCHANGED <<op, cli, result, endpoint, exitCode, fsVars, tmpVars,
                   locVars, runVars, waits, closes, pending>>

\* SshConnectFail that does not sleep after the last attempt
SshConnectFailNoLastWait ==
    /\ pc = "s_connect"
    /\ attempts < MaxAttempts
    /\ attempts' = attempts + 1
    /\ waits' = IF attempts + 1 < MaxAttempts THEN waits + 1 ELSE waits
    /\ UNCHANGED <<ctlVars, fsVars, tmpVars, locVars, runVars, conn, closes,
                   remote, pending>>

\* lines 39-47: an attempt that fails; sleep(15) and the next iteration
SshConnectFail ==
    /\ pc = "s_connect"
    /\ attempts < MaxAttempts
    /\ attempts' = attempts + 1
    /\ waits' = waits + 1
    /\ UNCHANGED <<ctlVars, fsVars, tmpVars, locVars, runVars, conn, closes,
                   remote, pending>>

\* SshUnreachable with the loop one iteration short
SshUnreachableEarly ==
    /\ pc = "s_connect"
    /\ attempts >= MaxAttempts - 1
    /\ Raise(Error("RuntimeError", "connect", 0))
    /\ UNCHANGED <<op, cli, endpoint, exitCode, fsVars, tmpVars, locVars,
                   runVars, sshVars>>

\* lines 48-49: the loop ran out without a break
SshUnreachable ==
    /\ pc = "s_connect"
    /\ attempts = MaxAttempts
    /\ Raise(Error("RuntimeError", "connect", 0))
    /\ UNCHANGED <<op, cli, endpoint, exitCode, fsVars, tmpVars, locVars,
                   runVars, sshVars>>

\* an exception inside the try of lines 51-76 goes through the finally
SshFail(e) ==
    /\ pending' = e
    /\ pc' = "s_finally"

\* lines 55-56: open_sftp and put
SshPut ==
    /\ pc = "s_put"
    /\ \/ /\ remote' = [remote EXCEPT !.uploaded = TRUE]
          /\ pc' = "s_chmod"
          /\ UNCHANGED pending
       \/ /\ SshFail(Error("IOError", "sftp", 0))
          /\ UNCHANGED remote
    /\ UNCHANGED <<op, cli, result, endpoint, exitCode, fsVars, tmpVars,
                   locVars, runVars, attempts, waits, conn, closes>>

\* line 57: sftp.chmod(remote_script_path, 0o755)
SshChmod ==
    /\ pc = "s_chmod"
    /\ \/ /\ remote' = [remote EXCEPT !.executable = TRUE]
          /\ pc' = "s_exec"
          /\ UNCHANGED pending
       \/ /\ SshFail(Error("IOError", "sftp", 0))
          /\ UNCHANGED remote
    /\ UNCHANGED <<op, cli, result, endpoint, exitCode, fsVars, tmpVars,
                   locVars, runVars, attempts, waits, conn, closes>>

\* lines 61-63: exec_command(f"sudo {remote_script_path}", get_pty=True)
SshExec ==
    /\ pc = "s_exec"
    /\ \/ /\ remote' = [remote EXCEPT !.started = TRUE]
          /\ pc' = "s_stream"
          /\ UNCHANGED pending
       \/ /\ SshFail(Error("SSHException", "exec_command", 0))
          /\ UNCHANGED remote
    /\ UNCHANGED <<op, cli, result, endpoint, exitCode, fsVars, tmpVars,
                   locVars, runVars, attempts, waits, conn, closes>>

\* lines 67-68: one line of the script's output is read and printed
SshReadLine ==
    /\ pc = "s_stream"
    /\ Len(remote.out) < MaxLines
    /\ \E line \in RemoteLines :
          remote' = [remote EXCEPT !.out = Append(@, line)]
    /\ UNCHANGED <<ctlVars, fsVars, tmpVars, locVars, runVars, attempts, waits,
                   conn, closes, pending>>

\* line 67: readline() returns "" once the remote side closed the stream
SshReadEof ==
    /\ pc = "s_stream"
    /\ pc' = "s_status"
    /\ UNCHANGED <<op, cli, result, endpoint, exitCode, fsVars, tmpVars,
                   locVars, runVars, sshVars>>

\* RemoteError testing `exit_status == 1` instead of `!= 0`
RemoteErrorOnlyOne(exit_status) ==
    IF exit_status = 1
    THEN Error("RuntimeError", "remote script", exit_status)
    ELSE NoError

\* line 74: raise RuntimeError(f"... exit code {exit_status}")
RemoteError(exit_status) ==
    IF exit_status # 0
    THEN Error("RuntimeError", "remote script", exit_status)
    ELSE NoError

\* lines 70-76: recv_exit_status and the test of it
SshExitStatus ==
    /\ pc = "s_status"
    /\ \E exit_status \in RemoteExitStatuses :
        /\ remote' = [remote EXCEPT !.exited = TRUE, !.status = exit_status]
        /\ pending' = RemoteError(exit_status)
    /\ pc' = "s_finally"
    /\ UNCHANGED <<op, cli, result, endpoint, exitCode, fsVars, tmpVars,
                   locVars, runVars, attempts, waits, conn, closes>>

\* SshClose as a close() at the end of the try body instead of in a finally
SshCloseOnSuccess ==
    /\ pc = "s_finally"
    /\ IF pending # NoError
       THEN Raise(pending) /\ UNCHANGED <<conn, closes>>
       ELSE /\ pc' = "d_report"
            /\ conn' = "closed"
            /\ closes' = closes + 1
            /\ UNCHANGED result
    /\ pending' = NoError
    /\ UNCHANGED <<op, cli, endpoint, exitCode, fsVars, tmpVars, locVars,
                   runVars, attempts, waits, remote>>

\* lines 78-80: the finally clause, then the return or the exception
SshClose ==
    /\ pc = "s_finally"
    /\ conn' = "closed"
    /\ closes' = closes + 1
    /\ IF pending # NoError
       THEN Raise(pending)
       ELSE pc' = "d_report" /\ UNCHANGED result
    /\ pending' = NoError
    /\ UNCHANGED <<op, cli, endpoint, exitCode, fsVars, tmpVars, locVars,
                   runVars, attempts, waits, remote>>

----------------------------------------------------------------------------
(* execute_deployment: the report (lines 163-168) *)

\* ExposedPort without the KeyError fallback value
ExposedPortNoFallback(a) == a.exposed_port

\* lines 164-167: assets['analysis']['exposed_port'], 80 on KeyError
ExposedPort(a) == IF a.has_port THEN a.exposed_port ELSE DefaultPort

\* f"http://{server_ip}:{port}"
Endpoint(host, port) == <<"http://", host, ":", port>>

\* DeployReport followed by a removal of the working directory
DeployReportReleasing ==
    /\ pc = "d_report"
    /\ \E a \in Analyses :
        /\ analysis' = a
        /\ endpoint' = Endpoint(server_ip, ExposedPort(a))
    /\ pc' = "done"
    /\ result' = Returned
    /\ dirExists' = FALSE /\ files' = {}
    /\ rmtrees' = rmtrees + 1
    /\ UNCHANGED <<op, cli, exitCode, tfFile, shFile, privKey, privMode, pubKey,
                   tempDir, terraform_code, terraform_content, project_id,
                   public_key_content, output_json, server_ip, runVars,
                   sshVars>>

\* lines 163-168; assets['analysis'] is the caller's argument, first read here
DeployReport ==
    /\ pc = "d_report"
    /\ \E a \in Analyses :
        /\ analysis' = a
        /\ endpoint' = Endpoint(server_ip, ExposedPort(a))
    /\ pc' = "done"
    /\ result' = Returned
    /\ UNCHANGED <<op, cli, exitCode, fsVars, tmpVars, terraform_code,
                   terraform_content, project_id, public_key_content,
                   output_json, server_ip, runVars, sshVars>>

----------------------------------------------------------------------------
(* destroy_resources (lines 171-189) *)

\* DestroyEnter without the os.path.exists test
DestroyEnterNoCheck(fromCli) ==
    /\ Idle
    /\ FreshInvocation
    /\ terraform_code' = NoPayload
    /\ op' = "destroy" /\ cli' = fromCli
    /\ result' = NoResult /\ exitCode' = -1
    /\ pc' = "x_init"
    /\ tempDir' = "none"
    /\ UNCHANGED fsVars

\* lines 173-176: the call and the test of the working directory; from main
\* (lines 23-25) when fromCli
DestroyEnter(fromCli) ==
    /\ Idle
    /\ FreshInvocation
    /\ terraform_code' = NoPayload
    /\ op' = "destroy" /\ cli' = fromCli
    /\ result' = NoResult /\ exitCode' = -1
    /\ pc' = IF dirExists THEN "x_init" ELSE "x_return"
    /\ tempDir' = "none"
    /\ UNCHANGED fsVars

DestroyCall == DestroyEnter(FALSE)

\* line 185
DestroyInit ==
    /\ pc = "x_init"
    /\ Popen("init", FALSE, <<>>, TRUE)
    /\ UNCHANGED <<op, cli, endpoint, exitCode, fsVars, tmpVars, locVars,
                   attempts, waits, conn, closes, remote>>

\* lines 180-182, 186; auto_approve is the caller's argument, first read here
DestroyDestroy ==
    /\ pc = "x_destroy"
    /\ \E auto_approve \in BOOLEAN : Popen("destroy", auto_approve, <<>>, TRUE)
    /\ UNCHANGED <<op, cli, endpoint, exitCode, fsVars, tmpVars, locVars,
                   attempts, waits, conn, closes, remote>>

\* line 187
DestroyComplete ==
    /\ pc = "x_ok"
    /\ pc' = "x_return"
    /\ UNCHANGED <<op, cli, result, endpoint, exitCode, fsVars, tmpVars,
                   locVars, runVars, sshVars>>

\* what a function that caught and printed error e returns with
Reported(e) == [kind |-> "returned", err |-> e]

\* lines 188-189: except Exception prints the error and falls off the end
DestroyExcept ==
    /\ pc = "x_except"
    /\ pc' = "x_return"
    /\ UNCHANGED <<op, cli, result, endpoint, exitCode, fsVars, tmpVars,
                   locVars, runVars, sshVars>>

\* destroy_resources returns; main goes on to sys.exit(0) (line 25)
DestroyReturn ==
    /\ pc = "x_return"
    /\ pc' = "done"
    /\ result' = Reported(pending)
    /\ pending' = NoError
    /\ exitCode' = IF cli THEN 0 ELSE exitCode
    /\ UNCHANGED <<op, cli, endpoint, fsVars, tmpVars, locVars, runVars,
                   attempts, waits, conn, closes, remote>>

----------------------------------------------------------------------------
(* main (src/main.py) *)

Exited(e) == [kind |-> "exited", err |-> e]

\* lines 23-25: --destroy
MainDestroy == DestroyEnter(TRUE)

\* lines 27-29: --prompt or --repo missing; the parser's error() exits 2
MainUsage ==
    /\ Idle
    /\ FreshInvocation
    /\ terraform_code' = NoPayload
    /\ op' = "main" /\ cli' = TRUE
    /\ pc' = "done"
    /\ exitCode' = 2
    /\ result' = Exited(Error("SystemExit", "main", 2))
    /\ tempDir' = "none"
    /\ UNCHANGED fsVars

\* lines 31-36: tempfile.mkdtemp() and the entry of the try
MainDeploy ==
    /\ Idle
    /\ FreshInvocation
    /\ terraform_code' = NoPayload
    /\ op' = "main" /\ cli' = TRUE
    /\ result' = NoResult /\ exitCode' = -1
    /\ tempDir' = "exists"
    /\ pc' = "m_parse"
    /\ UNCHANGED fsVars

\* a stage of the try body returns, or its exception reaches line 57
MainStage(here, next, origin) ==
    /\ pc = here
    /\ \/ pc' = next /\ UNCHANGED pending
       \/ pc' = "m_except" /\ pending' = Error("Exception", origin, 0)
    /\ UNCHANGED <<op, cli, result, endpoint, exitCode, fsVars, tmpVars,
                   locVars, runVars, attempts, waits, conn, closes, remote>>

\* line 40
MainParseIntent == MainStage("m_parse", "m_analyze", "parse_intent")

\* line 45
MainAnalyze == MainStage("m_analyze", "m_generate", "analyze_codebase")

\* line 50: generate_deployment_assets(intent, analysis) passes two arguments
\* to a function of three required parameters (src/src/generator.py line 5):
\* the call raises TypeError, so line 55 is never reached
MainGenerate ==
    /\ pc = "m_generate"
    /\ pc' = "m_except"
    /\ pending' = Error("TypeError", "generate_deployment_assets", 0)
    /\ UNCHANGED <<op, cli, result, endpoint, exitCode, fsVars, tmpVars,
                   locVars, runVars, attempts, waits, conn, closes, remote>>

\* lines 57-59: the error is printed and sys.exit(1) raises SystemExit
MainExcept ==
    /\ pc = "m_except"
    /\ pending' = Error("SystemExit", "main", 1)
    /\ pc' = "m_finally"
    /\ UNCHANGED <<op, cli, result, endpoint, exitCode, fsVars, tmpVars,
                   locVars, runVars, attempts, waits, conn, closes, remote>>

\* lines 60-63: shutil.rmtree(temp_code_dir), then SystemExit ends the process
MainFinally ==
    /\ pc = "m_finally"
    /\ tempDir' = "removed"
    /\ rmtrees' = rmtrees + 1
    /\ exitCode' = pending.code
    /\ result' = Exited(pending)
    /\ pending' = NoError
    /\ pc' = "done"
    /\ UNCHANGED <<op, cli, endpoint, fsVars, locVars, runVars, attempts,
                   waits, conn, closes, remote>>

----------------------------------------------------------------------------
(* The environment *)

\* the orchestrator process is killed from outside: no handler, no finally
Terminate ==
    /\ ~Idle
    /\ pc' = "done"
    /\ result' = Killed
    /\ proc' = NoProc /\ retval' = <<>>
    /\ pending' = NoError
    /\ UNCHANGED <<op, cli, endpoint, exitCode, fsVars, tmpVars, locVars, cmds,
                   attempts, waits, conn, closes, remote>>

\* the declaration another invocation of execute_deployment was given
PeerDeclarations == { <<"b">> }

\* a second orchestrator process runs execute_deployment while this one is
\* running: its lines 123-139 (makedirs, the substitution, the two writes) on
\* the same fixed path.  Nothing in the code holds a lock or tests for
\* another invocation.  The second process's later steps are left out: they
\* could only add interference.
PeerStage ==
    /\ ~Idle
    /\ \E t \in PeerDeclarations, id \in ProjectIds, script \in Scripts :
        /\ tfFile' = SubstitutePlaceholders(t, id)
        /\ shFile' = script
    /\ dirExists' = TRUE
    /\ files' = files \cup {TF_FILENAME, SCRIPT_FILENAME}
    /\ UNCHANGED <<ctlVars, privKey, privMode, pubKey, tmpVars, locVars,
                   runVars, sshVars>>

----------------------------------------------------------------------------
(* The specification *)

Next ==
    \/ DeployCall \/ DeploySelect \/ GetGcpProjectId \/ WriteFiles
    \/ GenerateSshKeyCheck \/ GenerateSshKeyFound \/ WritePrivateKey
    \/ WritePublicKey \/ ChmodPrivateKey \/ ReadPublicKey
    \/ DeployInit \/ DeployApply \/ DeployOutput \/ ParseOutput
    \/ ChildWrite \/ ChildBlock \/ ChildExit \/ RunReadLine \/ RunReadEof \/ RunWait
    \/ RunReturn
    \/ SshConnect \/ SshConnectFail \/ SshUnreachable \/ SshPut \/ SshChmod
    \/ SshExec \/ SshReadLine \/ SshReadEof \/ SshExitStatus \/ SshClose
    \/ DeployReport
    \/ DestroyCall \/ DestroyInit \/ DestroyDestroy \/ DestroyComplete
    \/ DestroyExcept \/ DestroyReturn
    \/ MainDestroy \/ MainUsage \/ MainDeploy \/ MainParseIntent
    \/ MainAnalyze \/ MainGenerate \/ MainExcept \/ MainFinally
    \/ Terminate

Spec == Init /\ [][Next]_vars

\* two orchestrator processes at a time on the same machine
NextConcurrent == Next \/ PeerStage

SpecConcurrent == Init /\ [][NextConcurrent]_vars

----------------------------------------------------------------------------
(* Claims *)

DeployEnded ==
    op = "deploy" /\ pc = "done" /\ result.kind \in {"returned", "raised"}

C2_ExitStatusDecides ==
    /\ pc = "s_finally" /\ remote.exited
          => IF remote.status = 0 THEN pending = NoError
             ELSE pending = Error("RuntimeError", "remote script", remote.status)
    /\ pc = "d_report" => remote.exited /\ remote.status = 0
    /\ DeployEnded /\ remote.exited
          => IF remote.status = 0
             THEN result = Returned /\ endpoint # <<>>
             ELSE /\ result = Raised(Error("RuntimeError", "remote script",
                                           remote.status))
                  /\ endpoint = <<>>

C2_Witness ==
    /\ DeployEnded
    /\ remote.exited /\ remote.status = 2
    /\ result.kind = "raised" /\ result.err.code = 2
    /\ endpoint = <<>>

\* C3: the connection loop makes exactly MaxAttempts = 10 attempts when all
\* fail and then raises the unreachable-host error with no upload and no
\* execution; a first success at attempt k <= 10 ends the loop after
\* exactly k attempts and the session goes on to the upload.
C3_BoundedRetries ==
    /\ [](/\ pc = "s_connect" => attempts = waits /\ attempts <= MaxAttempts
          /\ DeployEnded /\ result.err.origin = "connect"
                => /\ attempts = MaxAttempts
                   /\ conn = "none"
                   /\ ~remote.uploaded /\ ~remote.started
          /\ conn # "none"
                => /\ attempts = waits + 1 /\ attempts \in 1..MaxAttempts
                   /\ pc # "s_connect")
    /\ [][/\ conn # "none" /\ conn' # "none" => attempts' = attempts
          /\ conn = "none" /\ conn' = "open"
                => pc' = "s_put" /\ attempts' = attempts + 1]_vars

C3_Witness ==
    /\ DeployEnded
    /\ result = Raised(Error("RuntimeError", "connect", 0))
    /\ attempts = MaxAttempts
    /\ ~remote.uploaded

\* C4: destroy invoked when the working directory does not exist returns
\* normally and spawns no engine command.
C4_DestroyNothingToDo ==
    op = "destroy" /\ ~dirExists
        => /\ cmds = <<>> /\ proc = NoProc
           /\ pc \in {"x_return", "done"}
           /\ result.kind # "raised"
           /\ pc = "done" /\ result.kind # "killed" => result = Returned

C4_Witness ==
    op = "destroy" /\ ~dirExists /\ pc = "done" /\ result = Returned

\* C5: destroy never propagates a failure: a failing or missing engine
\* command is reported and destroy returns normally (main then exits 0).
C5_DestroyNeverRaises ==
    op = "destroy"
        => /\ result.kind # "raised"
           /\ pc = "done" /\ result.kind # "killed"
                 => /\ result.kind = "returned"
                    /\ cli => exitCode = 0

C5_Witness ==
    /\ op = "destroy" /\ pc = "done" /\ cli
    /\ result = Reported(Error("RuntimeError", "_run_command", 1))
    /\ cmds = <<"init", "destroy">>
    /\ exitCode = 0

\* C6 as stated: the declaration text deploy writes to main.tf contains no
\* occurrence of a placeholder token, for every declaration text and every
\* resolved account identifier.
C6_NoPlaceholderWritten ==
    TF_FILENAME \in files
        => \A i \in 1..Len(Placeholders) : ~Contains(tfFile, Placeholders[i])

\* C7: in both modes _run_command returns all of the child's captured output
\* (both streams merged when streaming, standard output when silent) when
\* the child exits 0, and raises an error carrying exactly the exit status
\* N when the child exits with N # 0.
C7_RunReturnsOrRaises ==
    pc = "r_return"
        => IF proc.status = 0
           THEN /\ pending = NoError
                /\ retval = LinesOf(IF proc.stream THEN proc.written
                                    ELSE OnFd(proc.written, "stdout"))
           ELSE pending = Error("RuntimeError", "_run_command", proc.status)

C7_Witness ==
    /\ pc = "r_return" /\ proc.stream /\ proc.status = 0
    /\ Len(retval) = 2
    /\ retval = LinesOf(proc.written)

\* C8: on success deploy reports http://<host>:<port> with host the value of
\* nat_ip in the engine's output and port the analysis' exposed_port, or 80
\* when the analysis has none.
C8_EndpointReported ==
    DeployEnded /\ result = Returned
        => /\ Len(output_json) = 1 /\ Len(output_json[1]) = 3
           /\ endpoint = <<"http://", output_json[1][2], ":",
                           IF analysis.has_port THEN analysis.exposed_port
                           ELSE DefaultPort>>

C8_Witness ==
    /\ DeployEnded /\ result = Returned
    /\ output_json = <<DocNatIp("203.0.113.5")>>
    /\ analysis.has_port /\ analysis.exposed_port = 5000
    /\ endpoint = <<"http://", "203.0.113.5", ":", 5000>>

\* C9: when the engine's structured output has no nat_ip key, deploy fails
\* with the missing-key error and no connection attempt is made.
C9_MissingOutput ==
    op = "deploy" /\ output_json = <<DocEmpty>>
        => /\ pc \in {"d_parse", "done"}
           /\ attempts = 0 /\ conn = "none"
           /\ pc = "done" /\ result.kind # "killed"
                 => result = Raised(Error("KeyError", "nat_ip", 0))

C9_Witness ==
    /\ DeployEnded /\ output_json = <<DocEmpty>>
    /\ result = Raised(Error("KeyError", "nat_ip", 0))
    /\ attempts = 0

\* C10: deploy given a keyed collection whose first member is t writes the
\* same main.tf as deploy given the plain string t; the other members have
\* no effect.
C10_FirstMemberWritten ==
    pc = "k_call"
        => tfFile = SubstitutePlaceholders(
                        IF terraform_code.kind = "dict"
                        THEN terraform_code.members[1]
                        ELSE terraform_code.text, project_id)

C10_Witness ==
    /\ pc = "k_call" /\ terraform_code.kind = "dict"
    /\ Len(terraform_code.members) = 2
    /\ tfFile = SubstitutePlaceholders(terraform_code.members[1], project_id)
    /\ tfFile # SubstitutePlaceholders(terraform_code.members[2], project_id)

\* C11: _generate_ssh_key is idempotent: once a call has created the key
\* pair in deploy_workdir, every later call finds the private key file,
\* generates nothing and returns with both files byte-identical; a private
\* key file, once written, never changes again.
C11_KeypairIdempotent ==
    /\ [][/\ PRIVATE_KEY_FILENAME \in files
                => PRIVATE_KEY_FILENAME \in files' /\ privKey' = privKey
          /\ PUBLIC_KEY_FILENAME \in files
                => PUBLIC_KEY_FILENAME \in files' /\ pubKey' = pubKey
          /\ pc = "k_call" /\ PRIVATE_KEY_FILENAME \in files /\ pc' # pc
                => pc' \in {"k_found", "done"}
          /\ pc = "k_found"
                => pc' \in {"k_found", "d_readpub", "done"}
                   /\ UNCHANGED fsVars]_vars
    /\ [](pc \in {"k_private", "k_public"}
             => PUBLIC_KEY_FILENAME \notin files)
    /\ [](PUBLIC_KEY_FILENAME \in files => pubKey = PublicKeyLine(privKey))

C11_Witness ==
    /\ op = "deploy" /\ pc = "k_found"
    /\ {PRIVATE_KEY_FILENAME, PUBLIC_KEY_FILENAME} \subseteq files
    /\ privMode = "0600"
    /\ pubKey = PublicKeyLine(privKey)

\* C12: once ssh_client.connect has succeeded, the connection is closed
\* exactly once before _run_remote_script returns or raises, on every path:
\* upload failure, failure to start the script, non-zero remote exit status,
\* and success; it is open only while the session is inside its try.
C12_ClosedExactlyOnce ==
    /\ closes = IF conn = "closed" THEN 1 ELSE 0
    /\ conn = "open"
          => \/ pc \in {"s_put", "s_chmod", "s_exec", "s_stream", "s_status",
                        "s_finally"}
             \/ pc = "done" /\ result = Killed
    /\ remote.host # "" /\ (pc = "d_report" \/ DeployEnded)
          => conn = "closed" /\ closes = 1
    /\ DeployEnded /\ result.err.origin \in {"sftp", "exec_command",
                                              "remote script"}
          => remote.host # "" /\ conn = "closed" /\ closes = 1

C12_Witness ==
    /\ DeployEnded
    /\ result = Raised(Error("IOError", "sftp", 0))
    /\ ~remote.uploaded
    /\ conn = "closed" /\ closes = 1

IsPrefix(s, t) == Len(s) <= Len(t) /\ s = SubSeq(t, 1, Len(s))

KeyFiles == {PRIVATE_KEY_FILENAME, PUBLIC_KEY_FILENAME}

\* C13: in every execution of deploy a step starts only after all earlier
\* steps completed successfully, in the order account-id resolution, the
\* substitution and the file writes, the key pair, engine init, apply,
\* output, the remote connection, the upload, the remote execution; once a
\* step fails no later step is started and the failure reaches the caller.
C13_StepsInOrder ==
    /\ [](op = "deploy" =>
          /\ IsPrefix(cmds, <<"init", "apply", "output">>)
          /\ pc \in {"d_write", "k_call"} => project_id # <<>>
          /\ pc \in {"k_call", "k_found", "k_private", "k_public", "k_chmod",
                      "d_readpub"}
                => /\ project_id # <<>>
                   /\ {TF_FILENAME, SCRIPT_FILENAME} \subseteq files
                   /\ tfFile = terraform_content
                   /\ cmds = <<>>
          /\ pc = "d_init" \/ cmds # <<>>
                => /\ project_id # <<>>
                   /\ {TF_FILENAME, SCRIPT_FILENAME} \cup KeyFiles
                          \subseteq files
                   /\ tfFile = terraform_content
                   /\ public_key_content = Strip(pubKey)
          /\ pc = "s_connect" \/ attempts > 0
                => /\ cmds = <<"init", "apply", "output">>
                   /\ proc = NoProc
                   /\ server_ip \in Hosts
          /\ remote.uploaded => conn # "none" /\ remote.host = server_ip
          /\ remote.executable => remote.uploaded
          /\ remote.started => remote.uploaded /\ remote.executable
          /\ remote.exited => remote.started
          /\ endpoint # <<>>
                => /\ remote.exited /\ remote.status = 0
                   /\ result = Returned
          /\ result.kind = "raised"
                => /\ pc = "done" /\ result.err # NoError
                   /\ endpoint = <<>> /\ proc = NoProc /\ conn # "open"
          /\ result.err.origin = "_get_gcp_project_id"
                => project_id = <<>> /\ cmds = <<>> /\ attempts = 0
          /\ result.err.origin \in {"_run_command", "execute_deployment",
                                    "nat_ip"}
                => attempts = 0 /\ conn = "none" /\ ~remote.uploaded
          /\ result.err.origin = "connect"
                => conn = "none" /\ ~remote.uploaded /\ ~remote.started
          /\ result.err.origin \in {"sftp", "exec_command"}
                => ~remote.started)
    /\ [][op = "deploy" =>
            /\ pc = "r_return" /\ pc' \in {"d_apply", "d_output", "d_parse"}
                  => proc.status = 0 /\ ~proc.alive /\ pending = NoError
            /\ pc = "r_return" /\ proc.status # 0 /\ pc' # pc
                  => pc' = "done" /\ result'.kind \in {"raised", "killed"}
            /\ pc = "done" => op' # "deploy" \/ pc' # "done"]_vars

C13_Witness ==
    /\ DeployEnded
    /\ result = Raised(Error("RuntimeError", "_run_command", 1))
    /\ cmds = <<"init", "apply">>
    /\ attempts = 0 /\ conn = "none" /\ endpoint = <<>>

\* C14: in deploy and in destroy the engine's apply, output and destroy are
\* spawned only after its init exited with status 0 earlier in the same
\* invocation; deploy never spawns destroy, destroy never spawns apply or
\* output.
C14_InitFirst ==
    /\ [](/\ op = "deploy" => IsPrefix(cmds, <<"init", "apply", "output">>)
          /\ op = "destroy" => IsPrefix(cmds, <<"init", "destroy">>)
          /\ op \notin {"deploy", "destroy"} => cmds = <<>>
          /\ proc.sub \in {"apply", "output", "destroy"}
                => cmds[1] = "init" /\ cmds[Len(cmds)] = proc.sub
          /\ pc \in {"d_apply", "x_destroy"} => cmds = <<"init">>)
    /\ [][/\ pc' \in {"d_apply", "x_destroy"} /\ pc' # pc
                => /\ pc = "r_return" /\ proc.sub = "init"
                   /\ proc.status = 0 /\ ~proc.alive
          /\ Len(cmds') > Len(cmds)
                => /\ cmds' = Append(cmds, proc'.sub)
                   /\ pc = CASE proc'.sub = "init" ->
                                  IF op = "deploy" THEN "d_init" ELSE "x_init"
                             [] proc'.sub = "apply" -> "d_apply"
                             [] proc'.sub = "output" -> "d_output"
                             [] OTHER -> "x_destroy"]_vars

C14_Witness ==
    /\ op = "destroy" /\ cmds = <<"init", "destroy">>
    /\ proc.sub = "destroy" /\ proc.alive

\* C15 as stated: the remote execution of the staged script begins only
\* after both artifacts are completely transferred: the script, uploaded and
\* marked executable, and the archive of the application content.
C15_BothArtifactsStaged ==
    remote.started
        => remote.uploaded /\ remote.executable /\ remote.archived

\* C16: after a deploy that had started the engine's apply, however it
\* ended (returned, failed or killed), deploy_workdir with the engine's state
\* is still there, and a later destroy finds it: it does not report
\* nothing-to-do but runs the engine's init and, once init exited 0, the
\* engine's destroy.
C16_DestroyFindsWorkspace ==
    /\ [](/\ STATE_FILENAME \in files => dirExists
          /\ op = "deploy" /\ Len(cmds) >= 2
                => dirExists /\ STATE_FILENAME \in files
          /\ op = "destroy" /\ STATE_FILENAME \in files
                => /\ IsPrefix(cmds, <<"init", "destroy">>)
                   /\ pc = "x_return" => cmds # <<>> \/ pending # NoError
                   /\ pc = "done" /\ result = Returned
                         => cmds = <<"init", "destroy">>)
    /\ [][/\ dirExists => dirExists' /\ files \subseteq files'
          /\ Idle /\ op' = "destroy" /\ STATE_FILENAME \in files
                => pc' = "x_init"
          /\ (op = "destroy" /\ pc = "r_return" /\ pc' # pc
                 /\ proc.sub = "init" /\ proc.status = 0)
                => pc' = "x_destroy" \/ result' = Killed]_vars

C16_Witness ==
    /\ op = "destroy" /\ pc = "done" /\ result = Returned
    /\ STATE_FILENAME \in files /\ dirExists
    /\ cmds = <<"init", "destroy">>

\* C17 as stated: the workspace is owned by the invocation that created it:
\* with two invocations running concurrently, what one wrote is not
\* overwritten by the other nor passed to the other's engine; so the
\* declaration in main.tf while a deploy's engine command runs is the one
\* that deploy wrote.
C17_WorkspaceExclusive ==
    op = "deploy" /\ proc.sub \in {"init", "apply", "output"}
        => tfFile = terraform_content

\* C18 as stated: whenever _generate_ssh_key has returned, deploy_key.pem
\* has mode 0600, both when this call generated the key and when the file
\* was already there.
C18_PrivateKeyOwnerOnly ==
    op = "deploy" /\ pc = "d_readpub" => privMode = "0600"

RunnerStep == RunReadLine \/ RunReadEof \/ RunWait

ChildStep == ChildWrite \/ ChildBlock \/ ChildExit

\* C19 as stated: _run_command returns or raises for every child that
\* writes a finite amount of output and then exits, in both modes and
\* whatever the amount of output relative to the capacity of the pipe.  The
\* child writes at most MaxLines lines, so the run terminates iff runner and
\* child are never both unable to take a step.
C19_RunTerminates ==
    pc \in {"r_read", "r_wait"} => ENABLED (RunnerStep \/ ChildStep)

\* C20 as stated: whenever _generate_ssh_key has returned, deploy_key.pem
\* and deploy_key.pub both exist, so the read of line 142 succeeds, whatever
\* state an earlier invocation left the workspace in.
C20_BothKeyFilesExist ==
    /\ op = "deploy" /\ pc = "d_readpub" => KeyFiles \subseteq files
    /\ DeployEnded => result # Raised(Error("FileNotFoundError",
                                            "execute_deployment", 0))

\* C21: in the connection loop the number of 15-second waits equals the
\* number of failed attempts: a wait follows every failed attempt, the tenth
\* included, so exhausting the bound makes 10 attempts and 10 waits before the
\* error is raised, and a first success on attempt k makes exactly k - 1
\* waits.
C21_WaitPerFailedAttempt ==
    /\ [](/\ conn = "none" => waits = attempts
          /\ conn # "none" => waits = attempts - 1
          /\ DeployEnded /\ result.err.origin = "connect"
                => attempts = MaxAttempts /\ waits = MaxAttempts
          /\ waits <= MaxAttempts)
    /\ [][/\ attempts' = attempts + 1 /\ conn' = "none"
                => waits' = waits + 1
          /\ attempts' = attempts + 1 /\ conn' = "open"
                => waits' = waits /\ waits = attempts
          /\ waits' > waits
                => waits' = waits + 1 /\ attempts' = attempts + 1
          /\ (pc = "s_connect" /\ attempts = MaxAttempts /\ pc' # pc)
                => waits' = MaxAttempts /\ conn' = "none"]_vars

C21_Witness ==
    /\ DeployEnded
    /\ result = Raised(Error("RuntimeError", "connect", 0))
    /\ attempts = 10 /\ waits = 10

====
